---- MODULE Spec2Model ----
(***************************************************************************)
(* A model of the TortoiseORM adapter of starlette-admin:                  *)
(*   - TortoiseMiddleware (lazy initialisation, rollback on failure,       *)
(*     shutdown)                         specification SpecMw              *)
(*   - the Admin facade's middleware chain  specification SpecAdmin        *)
(*   - ModelView create / edit / delete     specification SpecView         *)
(*   - normalize_list (both generations)    specification SpecNorm         *)
(*   - MultiplePKField serialize / parse    specification SpecPK           *)
(*   - build_order_query                    specification SpecOrd          *)
(*   - build_search_query / _filter_query   specification SpecPred         *)
(*   - the field converter's lookup         specification SpecConv         *)
(*   - ModelView find_all / count           specification SpecFind         *)
(*   - ModelView._populate_obj (file fields) specification SpecPop         *)
(* Each specification drives its own group of variables and leaves the     *)
(* other groups at their initial value.                                    *)
(***************************************************************************)
EXTENDS Integers, Sequences, FiniteSets, TLC

VARIABLES
    \* ---- TortoiseMiddleware
    initialized,        \* self._initialized
    generate_schemas,   \* self.generate_schemas
    db_config,          \* connections.db_config: the known connection names, in order
    pc,                 \* per request: where its dispatch coroutine is suspended
    orig,               \* per request: the failure call_next raised (being handled)
    attempts,           \* per request: connections whose rollback was attempted, in order
    result,             \* per request: how its last dispatch ended
    sdpc,               \* where the shutdown coroutine is suspended
    calls,              \* history: calls made to the ORM's lifecycle functions
    dispatches,         \* history: number of dispatch calls started
    shutdowns,          \* history: number of shutdown calls started
    \* ---- Admin facade
    admin_arg,          \* the `middlewares` argument of Admin(...)
    admin_pc,           \* "new", "built" (constructed) or "mounted"
    admin_middlewares,  \* self.middlewares
    admin_routes,       \* self.routes
    \* ---- ModelView
    view_cfg,           \* the view's configuration and the ORM's attribute protocol
    rows,               \* primary keys of the records in the store
    m2m,                \* per record: the related records of its many-valued relation
    last,               \* the last operation: its input, what it did, what it gave back
    \* ---- normalize_list
    norm_in,            \* the configuration value handed to normalize_list
    norm_mode,          \* is_default_sort_list
    norm_fn,            \* the generation applied: "tortoise_admin", "tortoise" or "none"
    norm_out,           \* what it returned or raised
    \* ---- MultiplePKField
    pk_in,              \* the primary key value, or the raw input, handed to the field
    pk_impl,            \* the generation of the field: "tortoise_admin" or "tortoise"
    pk_phase,           \* "new", "serialized", "roundtrip" or "parsed"
    pk_ser,             \* what serialize_value returned
    pk_par,             \* what parse_value returned or raised
    \* ---- build_order_query
    ord_in,             \* the order_by list handed to build_order_query
    ord_out,            \* what it returned or raised
    \* ---- build_search_query, build_filter_query
    p_fn,               \* the builder applied: "search", "legacy_search", "filter" or "none"
    p_term,             \* the search term
    p_fields,           \* searchable_fields
    p_where,            \* the where mapping
    p_pred,             \* the Q object built
    \* ---- the field converter
    cv_converters,      \* the registered converters: key -> converter, or "none"
    cv_field,           \* the model field to convert
    cv_out,             \* what get_converter returned or raised
    \* ---- find_all, count
    f_store,            \* the keys of the records in the table
    f_fields,           \* searchable_fields of the view
    f_op,               \* "find_all", "count" or "none"
    f_args,             \* skip, limit, where, order_by of the call
    f_out,              \* what the call returned or raised
    \* ---- ModelView._populate_obj
    po_fields,          \* get_fields_list(...): the view's fields, in order
    po_obj,             \* the instance's attributes before the call, by field name
    po_data,            \* the data argument, by field name
    po_out              \* result: the instance's attributes after the call, or the exception

mwVars == <<initialized, generate_schemas, db_config, pc, orig, attempts, result,
            sdpc, calls, dispatches, shutdowns>>

adminVars == <<admin_arg, admin_pc, admin_middlewares, admin_routes>>

viewVars == <<view_cfg, rows, m2m, last>>

normVars == <<norm_in, norm_mode, norm_fn, norm_out>>

pkVars == <<pk_in, pk_impl, pk_phase, pk_ser, pk_par>>

ordVars == <<ord_in, ord_out>>

predVars == <<p_fn, p_term, p_fields, p_where, p_pred>>

convVars == <<cv_converters, cv_field, cv_out>>

findVars == <<f_store, f_fields, f_op, f_args, f_out>>

popVars == <<po_fields, po_obj, po_data, po_out>>

vars == <<mwVars, adminVars, viewVars, normVars, pkVars, ordVars, predVars, convVars, findVars, popVars>>

(***************************************************************************)
(* Bounds                                                                  *)
(***************************************************************************)
MaxReqs == 2
MaxConns == 2
MaxDispatch == 2
MaxShutdown == 2
MaxMiddlewares == 3
MaxPk == 2
MaxRel == 1
MaxList == 2
MaxParts == 2
MaxComp == 1
MaxRaw == 3
MaxOrder == 2
MaxFields == 2
MaxRows == 3
MaxSkip == 2
MaxLimit == 2
MaxPopFields == 2
MaxFiles == 2

Reqs == 1..MaxReqs

(***************************************************************************)
(* TortoiseMiddleware                                                      *)
(***************************************************************************)
\* An exception in flight: its class (Exception, or a BaseException that is not
\* an Exception, such as asyncio.CancelledError) and the call that raised it.
ExcKinds == {"Exception", "BaseException"}
NoExc == [kind |-> "none", origin |-> "none"]
Exc(k, o) == [kind |-> k, origin |-> o]

NoResult == [status |-> "none", exc |-> NoExc]
Response == [status |-> "response", exc |-> NoExc]
Raised(e) == [status |-> "raised", exc |-> e]

\* What an awaited external call can do when it resumes.
Outcomes == {"ok"} \cup ExcKinds

\* `except Exception:` catches the classes derived from Exception only.
ExceptExceptionCatches(kind) == kind = "Exception"

Bump(field) == [calls EXCEPT ![field] = @ + 1]

MwInit ==
    /\ initialized = FALSE
    /\ generate_schemas \in BOOLEAN
    /\ db_config \in {[i \in 1..n |-> i] : n \in 1..MaxConns}
    /\ pc = [r \in Reqs |-> "idle"]
    /\ orig = [r \in Reqs |-> NoExc]
    /\ attempts = [r \in Reqs |-> <<>>]
    /\ result = [r \in Reqs |-> NoResult]
    /\ sdpc = "idle"
    /\ calls = [init |-> 0, initFail |-> 0, initDone |-> 0, close |-> 0, closeDone |-> 0]
    /\ dispatches = 0
    /\ shutdowns = 0

\* dispatch() is entered and runs up to its first suspension: initialize()
\* tests the flag and either awaits Tortoise.init or returns, after which
\* call_next is awaited.
DispatchEnter(r) ==
    /\ pc[r] \in {"idle", "done"}
    /\ dispatches < MaxDispatch
    /\ dispatches' = dispatches + 1
    /\ orig' = [orig EXCEPT ![r] = NoExc]
    /\ attempts' = [attempts EXCEPT ![r] = <<>>]
    /\ result' = [result EXCEPT ![r] = NoResult]
    /\ IF ~initialized
         THEN /\ pc' = [pc EXCEPT ![r] = "init"]
              /\ calls' = Bump("init")
         ELSE /\ pc' = [pc EXCEPT ![r] = "call_next"]
              /\ UNCHANGED calls
    /\ UNCHANGED <<initialized, generate_schemas, db_config, sdpc, shutdowns>>

\* initialize() has finished both awaits: the flag is set and dispatch goes on
\* to await call_next.
InitCompleted(r) ==
    /\ initialized' = TRUE
    /\ pc' = [pc EXCEPT ![r] = "call_next"]
    /\ calls' = Bump("initDone")
    /\ UNCHANGED result

\* An await inside initialize() raised: nothing in initialize or dispatch
\* catches it, so it leaves dispatch.
InitRaised(r, kind, origin) ==
    /\ pc' = [pc EXCEPT ![r] = "done"]
    /\ result' = [result EXCEPT ![r] = Raised(Exc(kind, origin))]
    /\ calls' = Bump("initFail")
    /\ UNCHANGED initialized

\* initialize() setting the flag as soon as Tortoise.init has returned, before
\* the schemas are generated.
InitReturn_FlagBeforeSchemas(r) ==
    /\ pc[r] = "init"
    /\ \E out \in Outcomes :
         IF out = "ok"
           THEN IF generate_schemas
                  THEN /\ pc' = [pc EXCEPT ![r] = "schemas"]
                       /\ initialized' = TRUE
                       /\ UNCHANGED <<result, calls>>
                  ELSE InitCompleted(r)
           ELSE InitRaised(r, out, "init")
    /\ UNCHANGED <<generate_schemas, db_config, orig, attempts, sdpc,
                   dispatches, shutdowns>>

\* Tortoise.init resumes.
InitReturn(r) ==
    /\ pc[r] = "init"
    /\ \E out \in Outcomes :
         IF out = "ok"
           THEN IF generate_schemas
                  THEN /\ pc' = [pc EXCEPT ![r] = "schemas"]
                       /\ UNCHANGED <<initialized, result, calls>>
                  ELSE InitCompleted(r)
           ELSE InitRaised(r, out, "init")
    /\ UNCHANGED <<generate_schemas, db_config, orig, attempts, sdpc,
                   dispatches, shutdowns>>

\* Tortoise.generate_schemas resumes.
SchemasReturn(r) ==
    /\ pc[r] = "schemas"
    /\ \E out \in Outcomes :
         IF out = "ok"
           THEN InitCompleted(r)
           ELSE InitRaised(r, out, "schemas")
    /\ UNCHANGED <<generate_schemas, db_config, orig, attempts, sdpc,
                   dispatches, shutdowns>>

\* The rollback loop after the attempt on connection number i has been dealt
\* with: the next connection's rollback is awaited, or the loop is over and
\* the bare `raise` re-raises the failure being handled.
RollbackFrom(r, i, e) ==
    IF i < Len(db_config)
      THEN /\ attempts' = [attempts EXCEPT ![r] = Append(@, db_config[i + 1])]
           /\ pc' = [pc EXCEPT ![r] = "rollback"]
           /\ UNCHANGED result
      ELSE /\ pc' = [pc EXCEPT ![r] = "done"]
           /\ result' = [result EXCEPT ![r] = Raised(e)]
           /\ UNCHANGED attempts

\* call_next resumes: with the response, or with a failure.
CallNextReturn(r) ==
    /\ pc[r] = "call_next"
    /\ \E out \in Outcomes :
         IF out = "ok"
           THEN /\ pc' = [pc EXCEPT ![r] = "done"]
                /\ result' = [result EXCEPT ![r] = Response]
                /\ UNCHANGED <<orig, attempts>>
           ELSE /\ orig' = [orig EXCEPT ![r] = Exc(out, "call_next")]
                /\ IF ExceptExceptionCatches(out)
                     THEN RollbackFrom(r, 0, Exc(out, "call_next"))
                     ELSE /\ pc' = [pc EXCEPT ![r] = "done"]
                          /\ result' = [result EXCEPT ![r] =
                                           Raised(Exc(out, "call_next"))]
                          /\ UNCHANGED attempts
    /\ UNCHANGED <<initialized, generate_schemas, db_config, sdpc, calls,
                   dispatches, shutdowns>>

\* connections.get(name) / conn.rollback() of the connection last attempted
\* resumes: an Exception is swallowed by the inner handler, anything else
\* leaves the loop and dispatch.
RollbackReturn(r) ==
    /\ pc[r] = "rollback"
    /\ \E out \in Outcomes :
         IF out = "ok" \/ ExceptExceptionCatches(out)
           THEN RollbackFrom(r, Len(attempts[r]), orig[r])
           ELSE /\ pc' = [pc EXCEPT ![r] = "done"]
                /\ result' = [result EXCEPT ![r] = Raised(Exc(out, "rollback"))]
                /\ UNCHANGED attempts
    /\ UNCHANGED <<initialized, generate_schemas, db_config, orig, sdpc, calls,
                   dispatches, shutdowns>>

\* shutdown() is entered: it tests the flag and awaits
\* Tortoise.close_connections, or returns at once.
ShutdownEnter ==
    /\ sdpc = "idle"
    /\ shutdowns < MaxShutdown
    /\ shutdowns' = shutdowns + 1
    /\ IF initialized
         THEN /\ sdpc' = "closing"
              /\ calls' = Bump("close")
         ELSE UNCHANGED <<sdpc, calls>>
    /\ UNCHANGED <<initialized, generate_schemas, db_config, pc, orig, attempts,
                   result, dispatches>>

\* shutdown() without line 98: the flag is left set after the connections
\* have been closed.
ShutdownReturn_NoReset ==
    /\ sdpc = "closing"
    /\ sdpc' = "idle"
    /\ \E out \in Outcomes :
         IF out = "ok"
           THEN /\ calls' = Bump("closeDone")
                /\ UNCHANGED initialized
           ELSE UNCHANGED <<initialized, calls>>
    /\ UNCHANGED <<generate_schemas, db_config, pc, orig, attempts, result,
                   dispatches, shutdowns>>

\* Tortoise.close_connections resumes; when it raised, the flag is not reset.
ShutdownReturn ==
    /\ sdpc = "closing"
    /\ sdpc' = "idle"
    /\ \E out \in Outcomes :
         IF out = "ok"
           THEN /\ initialized' = FALSE
                /\ calls' = Bump("closeDone")
           ELSE UNCHANGED <<initialized, calls>>
    /\ UNCHANGED <<generate_schemas, db_config, pc, orig, attempts, result,
                   dispatches, shutdowns>>

\* The middleware before any request: the other specifications leave it there.
MwIdle ==
    /\ initialized = FALSE
    /\ generate_schemas = FALSE
    /\ db_config = <<>>
    /\ pc = [r \in Reqs |-> "idle"]
    /\ orig = [r \in Reqs |-> NoExc]
    /\ attempts = [r \in Reqs |-> <<>>]
    /\ result = [r \in Reqs |-> NoResult]
    /\ sdpc = "idle"
    /\ calls = [init |-> 0, initFail |-> 0, initDone |-> 0, close |-> 0, closeDone |-> 0]
    /\ dispatches = 0
    /\ shutdowns = 0

(***************************************************************************)
(* Admin facade (tortoise_admin/admin.py)                                  *)
(***************************************************************************)
UserMiddlewares == {"mwA", "mwB", "mwC"}
TortoiseMiddleware == "TortoiseMiddleware"

SeqsUpTo(S, n) == UNION {[1..k -> S] : k \in 0..n}

\* An optional sequence: None, or a sequence.
NoneSeq == [none |-> TRUE, seq |-> <<>>]
SomeSeq(q) == [none |-> FALSE, seq |-> q]

\* Python's list.insert(i, x) for 0 <= i <= len(list).
ListInsert(list, i, x) ==
    SubSeq(list, 1, i) \o <<x>> \o SubSeq(list, i + 1, Len(list))

\* BaseAdmin.__init__ keeps the middlewares argument as self.middlewares.
BaseAdminInit(arg) == arg

\* The connection middleware put at the end of the chain instead of its head.
AdminMiddlewares_Append(arg) ==
    LET stored == BaseAdminInit(arg)
        own == IF stored.none THEN <<>> ELSE stored.seq
    IN  ListInsert(own, Len(own), TortoiseMiddleware)

\* Admin.__init__, lines 108-118: self.middlewares after construction.
AdminMiddlewares(arg) ==
    LET stored == BaseAdminInit(arg)
        own == IF stored.none THEN <<>> ELSE stored.seq
    IN  ListInsert(own, 0, TortoiseMiddleware)

AdminIdle ==
    /\ admin_arg = NoneSeq
    /\ admin_pc = "new"
    /\ admin_middlewares = <<>>
    /\ admin_routes = <<>>

AdminInit ==
    /\ admin_arg \in {NoneSeq} \cup {SomeSeq(q) : q \in SeqsUpTo(UserMiddlewares, MaxMiddlewares)}
    /\ admin_pc = "new"
    /\ admin_middlewares = <<>>
    /\ admin_routes = <<>>

\* Admin(...) is constructed.
AdminConstruct ==
    /\ admin_pc = "new"
    /\ admin_pc' = "built"
    /\ admin_middlewares' = AdminMiddlewares(admin_arg)
    /\ UNCHANGED <<admin_arg, admin_routes>>

\* mount_to(app): the file route is added when tortoise_file can be imported.
AdminMountTo ==
    /\ admin_pc = "built"
    /\ admin_pc' = "mounted"
    /\ \E importable \in BOOLEAN :
         admin_routes' = IF importable THEN Append(admin_routes, "api:file")
                                       ELSE admin_routes
    /\ UNCHANGED <<admin_arg, admin_middlewares>>

(***************************************************************************)
(* ModelView (tortoise_admin/view.py, and delete of tortoise/view.py) over *)
(* one entity with one relation, many-valued or single-valued, to a second *)
(* entity.                                                                 *)
(***************************************************************************)
Pks == 1..MaxPk
\* The related entity's records, and the keys a client may submit for them
\* (key 0 names no record).
RelStore == 1..MaxRel
RelKeys == 0..MaxRel

\* An optional collection: None, or a collection.
NoneSet == [none |-> TRUE, set |-> {}]
SomeSet(S) == [none |-> FALSE, set |-> S]

\* One executed statement of a handler: a call and the record it is about.
Step(name, p) == <<name, p>>
Has(done, name) == \E i \in 1..Len(done) : done[i][1] = name
IndexOf(steps, name) ==
    IF Has(steps, name)
      THEN CHOOSE i \in 1..Len(steps) :
               /\ steps[i][1] = name
               /\ \A j \in 1..(i - 1) : steps[j][1] # name
      ELSE 0

\* A failure: the step that raises (0: none) and the class of what it raises.
NoFault == [at |-> 0, kind |-> "none"]
Fault(i, k) == [at |-> i, kind |-> k]
FaultKinds == {"ValidationError", "Other"}
\* Of two failures the one that comes first in the handler (f on a tie).
Earliest(f, g) ==
    IF f.at = 0 THEN g
    ELSE IF g.at = 0 THEN f
    ELSE IF g.at < f.at THEN g ELSE f
\* The steps that ran to completion.
Completed(steps, f) ==
    IF f.at = 0 \/ f.at > Len(steps) THEN steps ELSE SubSeq(steps, 1, f.at - 1)
Injections(n) == {NoFault} \cup {Fault(i, k) : i \in 1..n, k \in FaultKinds}

Perms(S) ==
    {q \in [1..Cardinality(S) -> S] :
        \A i, j \in 1..Cardinality(S) : i # j => q[i] # q[j]}

\* find_by_pks: the records of `store` whose key is among `keys`.
FindByPks(store, keys) == store \cap keys

\* _arrange_data for the relation field: the submitted keys are replaced by
\* the related records found for them (find_by_pks), the one submitted key by
\* the record found for it or by None (find_by_pk); None stays None.
ArrangeData(rel) ==
    IF rel.none THEN rel
    ELSE IF view_cfg.rel_kind = "fk" /\ FindByPks(RelStore, rel.set) = {} THEN NoneSet
    ELSE SomeSet(FindByPks(RelStore, rel.set))

\* The value submitted for the relation field fits its kind: one key or None
\* for a single-valued relation.
FitsKind(rel) ==
    view_cfg.rel_kind = "fk" => (rel.none \/ Cardinality(rel.set) = 1)

\* The statements of the loop over `relations` for record p.
AttachSteps(p, clearFirst) ==
    IF view_cfg.rel_kind = "m2m"
      THEN (IF clearFirst THEN <<Step("clear", p)>> ELSE <<>>) \o <<Step("add", p)>>
      ELSE <<Step("setattr", p), Step("save_again", p)>>

\* handle_exception: what the handler raises for the exception it caught.
\* validate() turns the same class into the same error.
HandleException(kind) ==
    IF kind = "ValidationError" THEN "FormValidationError" ELSE kind

NoOp ==
    [op |-> "none", pk |-> 0, pks |-> {}, rel |-> NoneSet, inj |-> NoFault,
     found |-> FALSE, ret |-> "none", count |-> 0, exc |-> "none", log |-> <<>>]

Outcome(name, p, keys, rel, inj, found, f, done, value, n) ==
    [op |-> name, pk |-> p, pks |-> keys, rel |-> rel, inj |-> inj,
     found |-> found,
     ret |-> IF f.at = 0 THEN value ELSE "raised",
     count |-> IF f.at = 0 THEN n ELSE 0,
     exc |-> IF f.at = 0 THEN "none" ELSE HandleException(f.kind),
     log |-> done]

ViewIdle ==
    /\ view_cfg = [rel_in_fields |-> TRUE, rel_kind |-> "m2m", m2m_attr |-> "readonly"]
    /\ rows = {}
    /\ m2m = [p \in Pks |-> {}]
    /\ last = NoOp

\* rel_in_fields: the relation field is among the view's fields for create and
\* edit.  rel_kind: the relation is a ManyToManyField ("m2m") or a single-valued
\* relational field ("fk"); the variable m2m holds the related records of
\* either.  m2m_attr: what the ORM does when the many-valued relation attribute
\* of an instance is assigned: "readonly", the assignment raises
\* AttributeError; "plain", the attribute now holds the assigned value.
ViewConfigs ==
    {[rel_in_fields |-> FALSE, rel_kind |-> "m2m", m2m_attr |-> "readonly"],
     [rel_in_fields |-> TRUE, rel_kind |-> "m2m", m2m_attr |-> "readonly"],
     [rel_in_fields |-> TRUE, rel_kind |-> "m2m", m2m_attr |-> "plain"],
     [rel_in_fields |-> TRUE, rel_kind |-> "fk", m2m_attr |-> "plain"]}

ViewInit ==
    /\ view_cfg \in ViewConfigs
    /\ rows = {}
    /\ m2m = [p \in Pks |-> {}]
    /\ last = NoOp

\* create with the pre-create hook called after the first save.
CreateSteps_HookAfterSave(p, hasRel) ==
    <<Step("validate", p), Step("save", p), Step("before_create", p)>>
    \o (IF hasRel THEN AttachSteps(p, FALSE) ELSE <<>>)
    \o <<Step("after_create", p)>>

CreateSteps(p, hasRel) ==
    <<Step("validate", p), Step("before_create", p), Step("save", p)>>
    \o (IF hasRel THEN AttachSteps(p, FALSE) ELSE <<>>)
    \o <<Step("after_create", p)>>

\* create(data): p is the key the store gives the new record, rel the value
\* submitted for the relation field, inj the step at which a call raises.
Create(p, rel, inj) ==
    LET hasRel == view_cfg.rel_in_fields
        arranged == ArrangeData(rel)
        steps == CreateSteps(p, hasRel)
        \* add(*value) with value None raises TypeError
        noneArg == IF hasRel /\ arranged.none /\ view_cfg.rel_kind = "m2m"
                     THEN Fault(IndexOf(steps, "add"), "TypeError") ELSE NoFault
        f == Earliest(noneArg, inj)
        done == Completed(steps, f)
    IN  /\ last = NoOp
        /\ p \notin rows
        /\ FitsKind(rel)
        /\ inj.at <= Len(steps)
        \* only a call that is reached can raise
        /\ noneArg.at = 0 \/ inj.at < noneArg.at
        /\ rows' = IF Has(done, "save") THEN rows \cup {p} ELSE rows
        /\ m2m' = IF Has(done, "add")
                    THEN [m2m EXCEPT ![p] = @ \cup arranged.set]
                  ELSE IF Has(done, "save_again")
                    THEN [m2m EXCEPT ![p] = arranged.set]
                  ELSE m2m
        /\ last' = Outcome("create", p, {}, rel, inj, FALSE, f, done, "instance", 0)
        /\ UNCHANGED view_cfg

\* edit calling the pre-edit hook before the record is looked up.
EditSteps_HookBeforeLookup(p, hasRel) ==
    <<Step("validate", p), Step("before_edit", p), Step("find_by_pk", p),
      Step("populate", p), Step("save", p)>>
    \o (IF hasRel THEN AttachSteps(p, TRUE) ELSE <<>>)
    \o <<Step("after_edit", p)>>

\* The statements of edit for the record p.
EditSteps(p, hasRel) ==
    <<Step("validate", p), Step("find_by_pk", p), Step("populate", p),
      Step("before_edit", p), Step("save", p)>>
    \o (IF hasRel THEN AttachSteps(p, TRUE) ELSE <<>>)
    \o <<Step("after_edit", p)>>

\* edit(pk, data).  The relation value has been popped from data before
\* _populate_obj runs, which therefore assigns None to the relation attribute
\* of the instance; rel.clear() is later called on what getattr returns.  For
\* a single-valued relation the None is what the first save stores, until the
\* value is assigned and saved again.
Edit(p, rel, inj) ==
    LET hasRel == view_cfg.rel_in_fields
        arranged == ArrangeData(rel)
        steps == EditSteps(p, hasRel)
        \* find_by_pk gives None for a missing record and for a failed lookup
        found == p \in rows /\ inj.at # IndexOf(steps, "find_by_pk")
        notFound == IF found THEN NoFault
                    ELSE Fault(IndexOf(steps, "populate"), "FormValidationError")
        raised == IF inj.at = IndexOf(steps, "find_by_pk") THEN NoFault ELSE inj
        attr == IF ~hasRel \/ view_cfg.rel_kind = "fk" THEN NoFault
                ELSE IF view_cfg.m2m_attr = "readonly"
                  THEN Fault(IndexOf(steps, "populate"), "AttributeError")
                  ELSE Fault(IndexOf(steps, "clear"), "AttributeError")
        noneArg == IF hasRel /\ arranged.none /\ view_cfg.rel_kind = "m2m"
                     THEN Fault(IndexOf(steps, "add"), "TypeError") ELSE NoFault
        forced == Earliest(attr, noneArg)
        f == Earliest(notFound, Earliest(forced, raised))
        done == Completed(steps, f)
    IN  /\ last = NoOp
        /\ FitsKind(rel)
        /\ inj.at <= Len(steps)
        \* only a call that is reached can raise
        /\ p \in rows \/ inj.at < IndexOf(steps, "populate")
        /\ forced.at = 0 \/ inj.at < forced.at
        /\ rows' = rows
        /\ m2m' = IF Has(done, "add") \/ Has(done, "save_again")
                    THEN [m2m EXCEPT ![p] = arranged.set]
                  ELSE IF Has(done, "clear")
                          \/ (hasRel /\ view_cfg.rel_kind = "fk" /\ Has(done, "save"))
                    THEN [m2m EXCEPT ![p] = {}]
                  ELSE m2m
        /\ last' = Outcome("edit", p, {}, rel, inj, found, f, done, "instance", 0)
        /\ UNCHANGED view_cfg

\* delete calling the post-delete hook of an instance right after deleting it.
DeleteSteps_PostInline(objs) ==
    LET n == Len(objs)
    IN  [i \in 1..(1 + 3 * n) |->
            IF i = 1 THEN Step("find_by_pks", 0)
            ELSE IF (i - 2) % 3 = 0 THEN Step("before_delete", objs[((i - 2) \div 3) + 1])
            ELSE IF (i - 2) % 3 = 1 THEN Step("delete", objs[((i - 2) \div 3) + 1])
            ELSE Step("after_delete", objs[((i - 2) \div 3) + 1])]

\* The statements of delete for the located instances objs.
DeleteSteps(objs) ==
    LET n == Len(objs)
    IN  [i \in 1..(1 + 3 * n) |->
            IF i = 1 THEN Step("find_by_pks", 0)
            ELSE IF i <= 1 + 2 * n
              THEN IF (i - 2) % 2 = 0
                     THEN Step("before_delete", objs[((i - 2) \div 2) + 1])
                     ELSE Step("delete", objs[((i - 2) \div 2) + 1])
              ELSE Step("after_delete", objs[i - 1 - 2 * n])]

\* delete inside a transaction that is rolled back when the first loop raises.
Deleted_RolledBack(done) ==
    IF Has(done, "after_delete")
      THEN {done[i][2] : i \in {j \in 1..Len(done) : done[j][1] = "delete"}}
      ELSE {}

\* The records removed by the obj.delete() calls that completed: each is its
\* own statement against the store, nothing undoes it.
Deleted(done) == {done[i][2] : i \in {j \in 1..Len(done) : done[j][1] = "delete"}}

\* delete returns len(pks): the keys asked for, not the records located.
DeleteCount_Requested(objs, keys) == Cardinality(keys)

\* delete, line 252: return len(objs).
DeleteCount(objs, keys) == Len(objs)

\* delete(pks): objs are the located instances in the order the store gives.
Delete(keys, objs, inj) ==
    LET steps == DeleteSteps(objs)
        done == Completed(steps, inj)
    IN  /\ last = NoOp
        /\ objs \in Perms(FindByPks(rows, keys))
        /\ inj.at <= Len(steps)
        /\ rows' = rows \ Deleted(done)
        /\ m2m' = [p \in Pks |-> IF p \in Deleted(done) THEN {} ELSE m2m[p]]
        /\ last' = Outcome("delete", 0, keys, NoneSet, inj, FALSE, inj, done,
                           "count", DeleteCount(objs, keys))
        /\ UNCHANGED view_cfg

\* delete of tortoise/view.py: one bulk delete whose count is returned; every
\* exception becomes a FormValidationError.
DeleteLegacy(keys, inj) ==
    LET steps == <<Step("bulk_delete", 0)>>
        f == IF inj.at = 0 THEN NoFault ELSE Fault(inj.at, "FormValidationError")
        done == Completed(steps, f)
        gone == IF Has(done, "bulk_delete") THEN FindByPks(rows, keys) ELSE {}
    IN  /\ last = NoOp
        /\ inj.at <= Len(steps)
        /\ rows' = rows \ gone
        /\ m2m' = [p \in Pks |-> IF p \in gone THEN {} ELSE m2m[p]]
        /\ last' = Outcome("delete_legacy", 0, keys, NoneSet, inj, FALSE, f, done,
                           "count", Cardinality(gone))
        /\ UNCHANGED view_cfg

\* The handler's result has gone back to the caller: the view keeps nothing
\* of a request once it is over.
Respond ==
    /\ last # NoOp
    /\ last' = NoOp
    /\ UNCHANGED <<view_cfg, rows, m2m>>

RelInputs == {NoneSet} \cup {SomeSet(S) : S \in SUBSET RelKeys}

(***************************************************************************)
(* Python values, as far as the helpers and the field look at them         *)
(***************************************************************************)
\* A value: its type's name, its text (a str: its characters), its number
\* (an int or a bool) and its items (a tuple or a list).
Val(t, chars, num, items) == [t |-> t, s |-> chars, n |-> num, items |-> items]
StrV(chars) == Val("str", chars, 0, <<>>)
IntV(num) == Val("int", <<>>, num, <<>>)
BoolV(b) == Val("bool", <<>>, IF b THEN 1 ELSE 0, <<>>)
NoneV == Val("NoneType", <<>>, 0, <<>>)
TupleV(items) == Val("tuple", <<>>, 0, items)
ListV(items) == Val("list", <<>>, 0, items)
\* An exception raised instead of a value: its class and what its message names.
\* A UUID, its canonical text abbreviated to a few digits.
UuidV(chars) == Val("UUID", chars, 0, <<>>)
ErrV(class, chars) == Val(class, chars, 0, <<>>)
Unset == Val("unset", <<>>, 0, <<>>)

IsStr(v) == v.t = "str"
IsBool(v) == v.t = "bool"
IsSeq(v) == v.t \in {"tuple", "list"}
\* type(v).__name__
TypeName(v) == v.t

Digits == <<"0", "1", "2", "3", "4", "5", "6", "7", "8", "9">>
RECURSIVE NatStr(_)
NatStr(k) == IF k < 10 THEN <<Digits[k + 1]>>
             ELSE NatStr(k \div 10) \o <<Digits[(k % 10) + 1]>>
\* str(v) of a value without items
Str(v) ==
    CASE v.t \in {"str", "UUID"} -> v.s
      [] v.t = "int" -> IF v.n < 0 THEN <<"-">> \o NatStr(-v.n) ELSE NatStr(v.n)
      [] v.t = "bool" -> IF v.n = 1 THEN <<"T", "r", "u", "e">>
                         ELSE <<"F", "a", "l", "s", "e">>
      [] OTHER -> <<"N", "o", "n", "e">>

\* bool(v)
Truthy(v) ==
    CASE v.t = "str" -> v.s # <<>>
      [] v.t \in {"int", "bool"} -> v.n # 0
      [] v.t \in {"tuple", "list"} -> v.items # <<>>
      [] v.t = "NoneType" -> FALSE
      [] OTHER -> TRUE

\* sep.join(parts) for parts that are strings
RECURSIVE Join(_, _)
Join(parts, sep) ==
    IF parts = <<>> THEN <<>>
    ELSE IF Len(parts) = 1 THEN parts[1]
    ELSE parts[1] \o sep \o Join(Tail(parts), sep)

\* text.split(sep) for a one-character sep: empty parts are kept
RECURSIVE Split(_, _)
Split(text, sep) ==
    IF \A i \in 1..Len(text) : text[i] # sep THEN <<text>>
    ELSE LET k == CHOOSE i \in 1..Len(text) :
                      text[i] = sep /\ \A j \in 1..(i - 1) : text[j] # sep
         IN  <<SubSeq(text, 1, k - 1)>> \o Split(SubSeq(text, k + 1, Len(text)), sep)

\* The first place of a sequence whose element fails ok, 0 when none does.
FirstNot(q, ok(_)) ==
    IF \A i \in 1..Len(q) : ok(q[i]) THEN 0
    ELSE CHOOSE i \in 1..Len(q) : ~ok(q[i]) /\ \A j \in 1..(i - 1) : ok(q[j])

(***************************************************************************)
(* normalize_list: tortoise/helpers.py and tortoise_admin/helpers.py       *)
(***************************************************************************)
NormArg(kind, elems) == [kind |-> kind, elems |-> elems]
NormRes(kind, msg, elems) == [kind |-> kind, msg |-> msg, elems |-> elems]
NormUnset == NormRes("unset", "", <<>>)

\* (name, False): a bare name in a default-sort list
Ascending(v) == TupleV(<<v, BoolV(FALSE)>>)

\* The Tuple[str, bool] test of tortoise/helpers.py, line 21.
IsSortPair(v) ==
    /\ Len(v.items) = 2
    /\ IsStr(v.items[1])
    /\ IsBool(v.items[2])

\* The entry of tortoise/helpers.py's loop body for one element: the element
\* appended, or the ValueError raised.
LegacyEntry(v, sort) ==
    IF IsStr(v) THEN [ok |-> TRUE, msg |-> "", v |-> IF sort THEN Ascending(v) ELSE v]
    ELSE IF v.t = "tuple" /\ sort
      THEN IF IsSortPair(v)
             THEN [ok |-> TRUE, msg |-> "", v |-> TupleV(<<v.items[1], v.items[2]>>)]
             ELSE [ok |-> FALSE, msg |-> "Tuple[str, bool]", v |-> v]
      ELSE [ok |-> FALSE, msg |-> TypeName(v), v |-> v]

\* What iterating over the argument yields: the elements of a list or tuple,
\* the characters of a str.
Iterate(arg) ==
    IF arg.kind = "scalar"
      THEN [i \in 1..Len(arg.elems[1].s) |-> StrV(<<arg.elems[1].s[i]>>)]
      ELSE arg.elems

\* normalize_list of tortoise/helpers.py.
LegacyNormalizeList(arg, sort) ==
    IF arg.kind = "None" THEN NormRes("None", "", <<>>)
    ELSE IF arg.kind = "scalar" /\ ~IsStr(arg.elems[1])
      THEN NormRes("TypeError", TypeName(arg.elems[1]), <<>>)
    ELSE LET it == Iterate(arg)
             Ok(v) == LegacyEntry(v, sort).ok
             bad == FirstNot(it, Ok)
         IN  IF bad = 0
               THEN NormRes("list", "", [i \in 1..Len(it) |-> LegacyEntry(it[i], sort).v])
               ELSE NormRes("ValueError", LegacyEntry(it[bad], sort).msg, <<>>)

\* normalize_list of tortoise_admin/helpers.py.
NormalizeList(arg, sort) ==
    IF arg.kind = "None" THEN NormRes("list", "", <<>>)
    ELSE IF arg.kind \in {"list", "tuple"}
      THEN IF sort
             THEN NormRes("list", "",
                          [i \in 1..Len(arg.elems) |->
                              IF IsStr(arg.elems[i]) THEN Ascending(arg.elems[i])
                              ELSE arg.elems[i]])
             ELSE NormRes("list", "", arg.elems)
    ELSE IF sort
      THEN IF IsStr(arg.elems[1]) THEN NormRes("list", "", <<Ascending(arg.elems[1])>>)
           ELSE NormRes("list", "", <<arg.elems[1]>>)
    ELSE NormRes("list", "", <<arg.elems[1]>>)

NameA == StrV(<<"a">>)
NameAB == StrV(<<"a", "b">>)
\* The entries a configuration list is built from: names, sort pairs, and
\* entries of every other shape.
NormEntries ==
    {NameA, NameAB, IntV(1), BoolV(TRUE), NoneV,
     TupleV(<<NameA, BoolV(TRUE)>>), TupleV(<<NameAB, BoolV(FALSE)>>),
     TupleV(<<NameA>>), TupleV(<<NameA, BoolV(TRUE), BoolV(FALSE)>>),
     TupleV(<<IntV(1), BoolV(TRUE)>>), TupleV(<<NameA, IntV(1)>>),
     ListV(<<NameA, BoolV(TRUE)>>)}

NormInputs ==
    {NormArg("None", <<>>)}
    \cup {NormArg(k, q) : k \in {"list", "tuple"}, q \in SeqsUpTo(NormEntries, MaxList)}
    \cup {NormArg("scalar", <<v>>) : v \in {e \in NormEntries : ~IsSeq(e)}}

NormIdle ==
    /\ norm_in = NormArg("None", <<>>)
    /\ norm_mode = FALSE
    /\ norm_fn = "none"
    /\ norm_out = NormUnset

NormInit ==
    /\ norm_in \in NormInputs
    /\ norm_mode \in BOOLEAN
    /\ norm_fn = "none"
    /\ norm_out = NormUnset

\* ModelView.__init__ of tortoise_admin/view.py normalizes a field list.
ViewNormalize ==
    /\ norm_fn = "none"
    /\ norm_fn' = "tortoise_admin"
    /\ norm_out' = NormalizeList(norm_in, norm_mode)
    /\ UNCHANGED <<norm_in, norm_mode>>

\* ModelView.__init__ of tortoise/view.py normalizes a field list.
LegacyViewNormalize ==
    /\ norm_fn = "none"
    /\ norm_fn' = "tortoise"
    /\ norm_out' = LegacyNormalizeList(norm_in, norm_mode)
    /\ UNCHANGED <<norm_in, norm_mode>>

(***************************************************************************)
(* MultiplePKField: tortoise_admin/fields.py and tortoise/fields.py        *)
(***************************************************************************)
Comma == ","

\* ",".join(str(v) for v in value)
JoinKey(items) == Join([i \in 1..Len(items) |-> Str(items[i])], <<Comma>>)

\* serialize_value joining the components with nothing between them.
SerializeValue_NoSeparator(value) ==
    IF value.t = "NoneType" THEN StrV(<<>>)
    ELSE IF IsSeq(value)
      THEN StrV(Join([i \in 1..Len(value.items) |-> Str(value.items[i])], <<>>))
    ELSE StrV(Str(value))

\* serialize_value of tortoise_admin/fields.py.
SerializeValue(value) ==
    IF value.t = "NoneType" THEN StrV(<<>>)
    ELSE IF IsSeq(value) THEN StrV(JoinKey(value.items))
    ELSE IF value.t = "UUID" THEN StrV(Str(value))
    ELSE StrV(Str(value))

\* parse_value of tortoise_admin/fields.py.
ParseValue(value) ==
    IF ~Truthy(value) THEN NoneV
    ELSE IF IsStr(value) /\ \E i \in 1..Len(value.s) : value.s[i] = Comma
      THEN LET parts == Split(value.s, Comma)
           IN  IF \E i \in 1..Len(parts) : parts[i] = <<>>
                 THEN ErrV("FormValidationError", <<>>)
                 ELSE TupleV([i \in 1..Len(parts) |-> StrV(parts[i])])
    ELSE value

\* serialize_value of tortoise/fields.py.
LegacySerializeValue(value) ==
    IF IsSeq(value) THEN StrV(JoinKey(value.items))
    ELSE StrV(Str(value))

\* parse_value of tortoise/fields.py.
LegacyParseValue(value) ==
    IF IsStr(value) /\ \E i \in 1..Len(value.s) : value.s[i] = Comma
      THEN LET parts == Split(value.s, Comma)
           IN  ListV([i \in 1..Len(parts) |-> StrV(parts[i])])
    ELSE value

KeyChars == {"1", Comma}
KeyInts == {0, 12}
KeyUuid == UuidV(<<"2", "1">>)
\* The components of a composite key, and the raw inputs of a form.
KeyComponents ==
    {StrV(q) : q \in SeqsUpTo(KeyChars, MaxComp)} \cup {IntV(k) : k \in KeyInts}
    \cup {KeyUuid}
KeyScalars ==
    {StrV(q) : q \in SeqsUpTo(KeyChars, MaxRaw)} \cup {IntV(k) : k \in KeyInts}
    \cup {KeyUuid}
PKInputs ==
    {NoneV} \cup KeyScalars
    \cup {TupleV(q) : q \in SeqsUpTo(KeyComponents, MaxParts)}
    \cup {ListV(q) : q \in SeqsUpTo(KeyComponents, MaxParts)}

PKIdle ==
    /\ pk_in = NoneV
    /\ pk_impl = "tortoise_admin"
    /\ pk_phase = "new"
    /\ pk_ser = Unset
    /\ pk_par = Unset

PKInit ==
    /\ pk_in \in PKInputs
    /\ pk_impl \in {"tortoise_admin", "tortoise"}
    /\ pk_phase = "new"
    /\ pk_ser = Unset
    /\ pk_par = Unset

\* The key is serialized for display.
PKSerialize ==
    /\ pk_phase = "new"
    /\ pk_impl = "tortoise_admin"
    /\ pk_phase' = "serialized"
    /\ pk_ser' = SerializeValue(pk_in)
    /\ UNCHANGED <<pk_in, pk_impl, pk_par>>

\* The serialized key comes back and is parsed.
PKParseSerialized ==
    /\ pk_phase = "serialized"
    /\ pk_impl = "tortoise_admin"
    /\ pk_phase' = "roundtrip"
    /\ pk_par' = ParseValue(pk_ser)
    /\ UNCHANGED <<pk_in, pk_impl, pk_ser>>

\* A raw input is parsed.
PKParseInput ==
    /\ pk_phase = "new"
    /\ pk_impl = "tortoise_admin"
    /\ ~IsSeq(pk_in)
    /\ pk_phase' = "parsed"
    /\ pk_par' = ParseValue(pk_in)
    /\ UNCHANGED <<pk_in, pk_impl, pk_ser>>

LegacyPKSerialize ==
    /\ pk_phase = "new"
    /\ pk_impl = "tortoise"
    /\ pk_phase' = "serialized"
    /\ pk_ser' = LegacySerializeValue(pk_in)
    /\ UNCHANGED <<pk_in, pk_impl, pk_par>>

LegacyPKParseSerialized ==
    /\ pk_phase = "serialized"
    /\ pk_impl = "tortoise"
    /\ pk_phase' = "roundtrip"
    /\ pk_par' = LegacyParseValue(pk_ser)
    /\ UNCHANGED <<pk_in, pk_impl, pk_ser>>

LegacyPKParseInput ==
    /\ pk_phase = "new"
    /\ pk_impl = "tortoise"
    /\ ~IsSeq(pk_in)
    /\ pk_phase' = "parsed"
    /\ pk_par' = LegacyParseValue(pk_in)
    /\ UNCHANGED <<pk_in, pk_impl, pk_ser>>

(***************************************************************************)
(* build_order_query (tortoise_admin/helpers.py)                           *)
(***************************************************************************)
Whitespace == {" ", "\t"}

\* text.lstrip() and text.rstrip()
RECURSIVE LStrip(_)
LStrip(text) ==
    IF text # <<>> /\ Head(text) \in Whitespace THEN LStrip(Tail(text)) ELSE text
RECURSIVE RStrip(_)
RStrip(text) ==
    IF text # <<>> /\ text[Len(text)] \in Whitespace
      THEN RStrip(SubSeq(text, 1, Len(text) - 1))
      ELSE text
\* text.strip()
Strip(text) == RStrip(LStrip(text))

\* The length of the longest prefix of text without whitespace.
RECURSIVE WordLen(_)
WordLen(text) ==
    IF text = <<>> \/ Head(text) \in Whitespace THEN 0 ELSE 1 + WordLen(Tail(text))

\* text.split(maxsplit=1): the first word, and what follows the whitespace
\* after it when anything does.
SplitOnce(text) ==
    LET body == LStrip(text)
        k == WordLen(body)
        rest == LStrip(SubSeq(body, k + 1, Len(body)))
    IN  IF body = <<>> THEN <<>>
        ELSE IF rest = <<>> THEN <<SubSeq(body, 1, k)>>
        ELSE <<SubSeq(body, 1, k), rest>>

\* text.split(): every word.
RECURSIVE Words(_)
Words(text) ==
    LET body == LStrip(text)
        k == WordLen(body)
    IN  IF body = <<>> THEN <<>>
        ELSE <<SubSeq(body, 1, k)>> \o Words(SubSeq(body, k + 1, Len(body)))

LowerChar(c) ==
    CASE c = "A" -> "a" [] c = "C" -> "c" [] c = "D" -> "d" [] c = "E" -> "e"
      [] c = "L" -> "l" [] c = "S" -> "s" [] OTHER -> c
\* text.lower()
Lower(text) == [i \in 1..Len(text) |-> LowerChar(text[i])]

Desc == <<"d", "e", "s", "c">>

\* `field, direction = value.strip().split(maxsplit=1)` unpacks two values
\* or raises ValueError.
Unpacks(value) == Len(SplitOnce(Strip(value))) = 2

\* The clause appended for one entry that unpacks, marking every entry
\* descending.
OrderClause_AlwaysDesc(value) ==
    LET parts == SplitOnce(Strip(value))
    IN  <<"-">> \o parts[1]

\* The clause appended for one entry that unpacks.
OrderClause(value) ==
    LET parts == SplitOnce(Strip(value))
        field == parts[1]
        direction == parts[2]
    IN  IF Lower(direction) = Desc THEN <<"-">> \o field ELSE field

OrdRes(kind, clauses) == [kind |-> kind, clauses |-> clauses]
OrdUnset == OrdRes("unset", <<>>)

\* build_order_query of tortoise_admin/helpers.py.
BuildOrderQuery(order_by) ==
    IF FirstNot(order_by, Unpacks) # 0 THEN OrdRes("ValueError", <<>>)
    ELSE OrdRes("list", [i \in 1..Len(order_by) |-> OrderClause(order_by[i])])

\* The entries an order_by list is made of: none, one, two or three words,
\* with one blank between the words or with more whitespace around them.
OrderFields == {<<"p">>, <<"i", "d">>}
OrderDirections == {Desc, <<"D", "E", "S", "C">>, <<"D", "e", "s", "c">>, <<"a", "s", "c">>}
Tight(words) == Join(words, <<" ">>)
Wide(words) == <<" ">> \o Join(words, <<" ", "\t">>) \o <<" ">>
OrderEntries ==
    {<<>>, <<" ">>}
    \cup {Tight(<<f>>) : f \in OrderFields \cup {Desc}}
    \cup {Tight(<<f, d>>) : f \in OrderFields, d \in OrderDirections}
    \cup {Wide(<<f, d>>) : f \in OrderFields, d \in OrderDirections}
    \cup {Tight(<<f, d, x>>) : f \in OrderFields, d \in OrderDirections,
                                x \in {Desc, <<"a", "s", "c">>}}

OrdIdle ==
    /\ ord_in = <<>>
    /\ ord_out = OrdUnset

OrdInit ==
    /\ ord_in \in SeqsUpTo(OrderEntries, MaxOrder)
    /\ ord_out = OrdUnset

\* find_all builds the ordering of its query.
FindAllOrder ==
    /\ ord_out = OrdUnset
    /\ ord_out' = BuildOrderQuery(ord_in)
    /\ UNCHANGED ord_in

(***************************************************************************)
(* build_search_query, build_filter_query (tortoise_admin/helpers.py) and  *)
(* get_search_query of tortoise/view.py                                    *)
(***************************************************************************)
FieldNames == {"name", "status"}

\* A Q object: its join type and its keyword conditions.  Q() has none.
QNode(join, children) == [join |-> join, children |-> children]
QLeaf(field, op, value) == [field |-> field, op |-> op, value |-> value]
QEmpty == QNode("AND", {})

\* needle occurs in text
Contains(text, needle) ==
    \E i \in 1..(Len(text) + 1) :
        /\ i + Len(needle) - 1 <= Len(text)
        /\ SubSeq(text, i, i + Len(needle) - 1) = needle

\* What the database answers for one condition on one record; a comparison
\* with a NULL column matches nothing, `field = None` selects the NULLs.
EvalLeaf(leaf, rec) ==
    LET v == rec[leaf.field]
    IN  CASE leaf.op = "icontains" ->
               /\ v # NoneV
               /\ Contains(Lower(Str(v)), Lower(leaf.value.s))
          [] leaf.op = "in" ->
               /\ v # NoneV
               /\ \E i \in 1..Len(leaf.value.items) : leaf.value.items[i] = v
          [] OTHER -> v = leaf.value

\* Whether a record passes filter(q); an empty Q filters nothing.
Eval(q, rec) ==
    IF q.children = {} THEN TRUE
    ELSE IF q.join = "OR" THEN \E c \in q.children : EvalLeaf(c, rec)
    ELSE \A c \in q.children : EvalLeaf(c, rec)

Range(q) == {q[i] : i \in 1..Len(q)}

\* build_search_query of tortoise_admin/helpers.py.
BuildSearchQuery(term, fields) ==
    IF fields = <<>> \/ term = <<>> THEN QEmpty
    ELSE QNode("OR", {QLeaf(f, "icontains", StrV(term)) : f \in Range(fields)})

\* get_search_query of tortoise/view.py.
LegacyGetSearchQuery(term, fields) ==
    IF fields = <<>> THEN QEmpty
    ELSE QNode("OR", {QLeaf(f, "icontains", StrV(term)) : f \in Range(fields)})

Absent == Val("absent", <<>>, 0, <<>>)
WhereKeys(where) == {f \in FieldNames : where[f] # Absent}

\* One condition of build_filter_query.
FilterLeaf(f, value) ==
    IF IsSeq(value) THEN QLeaf(f, "in", value) ELSE QLeaf(f, "eq", value)

\* build_filter_query joining its conditions with OR.
BuildFilterQuery_JoinOr(where) ==
    IF WhereKeys(where) = {} THEN QEmpty
    ELSE QNode("OR", {FilterLeaf(f, where[f]) : f \in WhereKeys(where)})

\* build_filter_query of tortoise_admin/helpers.py.
BuildFilterQuery(where) ==
    IF WhereKeys(where) = {} THEN QEmpty
    ELSE QNode("AND", {FilterLeaf(f, where[f]) : f \in WhereKeys(where)})

Al == StrV(<<"A", "l">>)
Bal == StrV(<<"b", "a", "l">>)
\* The values of a column, the records, the terms and the mappings.
ColumnValues == {NoneV, Al, Bal}
Records == [FieldNames -> ColumnValues]
Terms == {<<>>, <<"a", "l">>, <<"A", "L">>, <<"b">>, <<"l", "a">>}
WhereValues ==
    {Absent, Al, Bal, ListV(<<>>), ListV(<<Al>>), ListV(<<Al, Bal>>), TupleV(<<Bal>>)}
WhereDicts == [FieldNames -> WhereValues]

PredIdle ==
    /\ p_fn = "none"
    /\ p_term = <<>>
    /\ p_fields = <<>>
    /\ p_where = [f \in FieldNames |-> Absent]
    /\ p_pred = QEmpty

PredInit ==
    /\ p_fn = "none"
    /\ p_term \in Terms
    /\ p_fields \in SeqsUpTo(FieldNames, MaxFields)
    /\ p_where \in WhereDicts
    /\ p_pred = QEmpty

GetSearchQuery ==
    /\ p_fn = "none"
    /\ p_fn' = "search"
    /\ p_pred' = BuildSearchQuery(p_term, p_fields)
    /\ UNCHANGED <<p_term, p_fields, p_where>>

LegacyGetSearch ==
    /\ p_fn = "none"
    /\ p_fn' = "legacy_search"
    /\ p_pred' = LegacyGetSearchQuery(p_term, p_fields)
    /\ UNCHANGED <<p_term, p_fields, p_where>>

GetFilterQuery ==
    /\ p_fn = "none"
    /\ p_fn' = "filter"
    /\ p_pred' = BuildFilterQuery(p_where)
    /\ UNCHANGED <<p_term, p_fields, p_where>>

(***************************************************************************)
(* BaseTortoiseModelConverter (tortoise_admin/converters.py)                *)
(***************************************************************************)
\* A class: its module, its name and its bases after itself in
\* method-resolution order.
Class(module, name) == [module |-> module, name |-> name]
ObjectClass == Class("builtins", "object")
FieldClass == Class("tortoise.fields", "Field")
CharFieldClass == Class("tortoise.fields", "CharField")
AppCharFieldClass == Class("app.fields", "CharField")
AppEmailFieldClass == Class("app.fields", "EmailField")
FieldClasses == {FieldClass, CharFieldClass, AppCharFieldClass, AppEmailFieldClass}

\* cls.__mro__
Mro(cls) ==
    IF cls = FieldClass THEN <<FieldClass, ObjectClass>>
    ELSE IF cls = CharFieldClass THEN <<CharFieldClass, FieldClass, ObjectClass>>
    ELSE <<cls, CharFieldClass, FieldClass, ObjectClass>>

\* f"{base.__module__}.{base.__name__}" and base.__name__ as keys
QualKey(cls) == <<cls.module, cls.name>>
BareKey(cls) == <<"", cls.name>>
ConverterKeys ==
    {QualKey(c) : c \in FieldClasses} \cup {BareKey(c) : c \in FieldClasses}
Converters == {"conv_string", "conv_email"}
Registered(reg, key) == key \in DOMAIN reg /\ reg[key] # "none"

\* The loop of find_converter_for_field_type looking up the bare name before
\* the qualified name.
RECURSIVE FindConverter_BareFirst(_, _)
FindConverter_BareFirst(reg, mro) ==
    IF mro = <<>> THEN "none"
    ELSE IF Registered(reg, BareKey(Head(mro))) THEN reg[BareKey(Head(mro))]
    ELSE IF Registered(reg, QualKey(Head(mro))) THEN reg[QualKey(Head(mro))]
    ELSE FindConverter_BareFirst(reg, Tail(mro))

\* The loop of find_converter_for_field_type over what is left of the MRO.
RECURSIVE FindConverter(_, _)
FindConverter(reg, mro) ==
    IF mro = <<>> THEN "none"
    ELSE IF Registered(reg, QualKey(Head(mro))) THEN reg[QualKey(Head(mro))]
    ELSE IF Registered(reg, BareKey(Head(mro))) THEN reg[BareKey(Head(mro))]
    ELSE FindConverter(reg, Tail(mro))

\* find_converter_for_field_type(field_type)
FindConverterForFieldType(reg, cls) == FindConverter(reg, Mro(cls))

ConvRes(kind, conv, field) == [kind |-> kind, conv |-> conv, field |-> field]
ConvUnset == ConvRes("unset", "none", "")

\* get_converter(field): type(field) is looked up; the error names the field.
GetConverterOf(reg, field) ==
    LET converter == FindConverterForFieldType(reg, field.cls)
    IN  IF converter # "none" THEN ConvRes("converter", converter, "")
        ELSE ConvRes("NotSupportedColumn", "none", field.name)

ModelFields == {[name |-> n, cls |-> c] : n \in {"title", "email"}, c \in FieldClasses}

ConvIdle ==
    /\ cv_converters = [k \in ConverterKeys |-> "none"]
    /\ cv_field = [name |-> "title", cls |-> FieldClass]
    /\ cv_out = ConvUnset

ConvInit ==
    /\ cv_converters \in [ConverterKeys -> Converters \cup {"none"}]
    /\ cv_field \in ModelFields
    /\ cv_out = ConvUnset

GetConverter ==
    /\ cv_out = ConvUnset
    /\ cv_out' = GetConverterOf(cv_converters, cv_field)
    /\ UNCHANGED <<cv_converters, cv_field>>

(***************************************************************************)
(* find_all and count (tortoise_admin/view.py)                             *)
(***************************************************************************)
\* The record stored under a key: its columns.
RowOf(k) ==
    [pk |-> IntV(k),
     name |-> IF k % 3 = 1 THEN Al ELSE IF k % 3 = 2 THEN NoneV ELSE Bal,
     status |-> IF k % 2 = 1 THEN Bal ELSE Al]

\* where: None, a mapping, or any other value.
WhereNone == [kind |-> "None", dict |-> [f \in FieldNames |-> Absent], val |-> NoneV]
WhereDict(d) == [kind |-> "dict", dict |-> d, val |-> NoneV]
WhereOther(v) == [kind |-> "other", dict |-> [f \in FieldNames |-> Absent], val |-> v]

\* The Q object find_all and count filter with (lines 108-112, 138-142).
WhereQuery(where, fields) ==
    IF where.kind = "None" THEN QEmpty
    ELSE IF where.kind = "dict" THEN BuildFilterQuery(where.dict)
    ELSE BuildSearchQuery(Str(where.val), fields)

Matching(store, where, fields) ==
    {k \in store : Eval(WhereQuery(where, fields), RowOf(k))}

\* The column an ordering key names, and whether it is descending.
KeyDescending(key) == key # <<>> /\ Head(key) = "-"
KeyColumn(key) ==
    LET col == IF KeyDescending(key) THEN Tail(key) ELSE key
    IN  IF col = <<"p", "k">> THEN "pk" ELSE IF col = <<"n", "a", "m", "e">> THEN "name"
        ELSE "status"

\* The place of a letter in the alphabet, letter case aside.
LetterRank(c) ==
    CASE LowerChar(c) = "a" -> 1 [] LowerChar(c) = "b" -> 2 [] LowerChar(c) = "l" -> 12
      [] OTHER -> 0
RECURSIVE TextLess(_, _)
TextLess(a, b) ==
    IF b = <<>> THEN FALSE
    ELSE IF a = <<>> THEN TRUE
    ELSE IF LetterRank(Head(a)) # LetterRank(Head(b))
      THEN LetterRank(Head(a)) < LetterRank(Head(b))
    ELSE TextLess(Tail(a), Tail(b))
\* The database's order of two values of one column.
ValueLess(a, b) == IF a.t = "int" THEN a.n < b.n ELSE TextLess(a.s, b.s)

\* Record x must come before record y under order_by(*keys).
RECURSIVE Before(_, _, _)
Before(x, y, keys) ==
    IF keys = <<>> THEN FALSE
    ELSE LET col == KeyColumn(Head(keys))
             a == IF KeyDescending(Head(keys)) THEN RowOf(y)[col] ELSE RowOf(x)[col]
             b == IF KeyDescending(Head(keys)) THEN RowOf(x)[col] ELSE RowOf(y)[col]
         IN  IF ValueLess(a, b) THEN TRUE
             ELSE IF ValueLess(b, a) THEN FALSE
             ELSE Before(x, y, Tail(keys))

\* The orders in which the database may return the records of a query:
\* every order that agrees with the ordering keys.
Orderings(S, keys) ==
    {q \in Perms(S) : \A i, j \in 1..Len(q) : i < j => ~Before(q[j], q[i], keys)}

Max(a, b) == IF a > b THEN a ELSE b
Min(a, b) == IF a < b THEN a ELSE b

\* offset and limit that never apply the offset.
Paginate_NoOffset(q, skip, limit) ==
    IF limit > 0 THEN SubSeq(q, 1, Min(Len(q), limit)) ELSE q

\* `if skip: offset(skip)` and `if limit > 0: limit(limit)` on the rows q.
Paginate(q, skip, limit) ==
    LET rest == IF skip # 0 THEN SubSeq(q, skip + 1, Len(q)) ELSE q
    IN  IF limit > 0 THEN SubSeq(rest, 1, Min(Len(rest), limit)) ELSE rest

FindRes(kind, found, n) == [kind |-> kind, rows |-> found, n |-> n]
FindUnset == FindRes("unset", <<>>, 0)
NoArgs == [skip |-> 0, limit |-> 0, where |-> WhereNone, order_by |-> <<>>]

StatusDesc == <<"s", "t", "a", "t", "u", "s", " ", "D", "E", "S", "C">>
StatusAsc == <<"s", "t", "a", "t", "u", "s", " ", "a", "s", "c">>
PkDesc == <<"p", "k", " ", "d", "e", "s", "c">>
\* The arguments of the calls.
FindWheres ==
    {WhereNone,
     WhereDict([f \in FieldNames |-> Absent]),
     WhereDict([f \in FieldNames |-> IF f = "status" THEN Bal ELSE Absent]),
     WhereDict([f \in FieldNames |-> IF f = "status" THEN ListV(<<Al, Bal>>) ELSE Al]),
     WhereOther(StrV(<<"a", "L">>)),
     WhereOther(StrV(<<>>)),
     WhereOther(IntV(1))}
FindOrders == {<<>>, <<StatusDesc>>, <<StatusAsc, PkDesc>>, <<PkDesc>>, <<<<"p", "k">>>>}

FindIdle ==
    /\ f_store = {}
    /\ f_fields = <<>>
    /\ f_op = "none"
    /\ f_args = NoArgs
    /\ f_out = FindUnset

FindInit ==
    /\ f_store \in SUBSET (1..MaxRows)
    /\ f_fields \in {<<"name">>, <<"name", "status">>}
    /\ f_op = "none"
    /\ f_args = NoArgs
    /\ f_out = FindUnset

\* find_all(skip, limit, where, order_by); rows is the order in which the
\* database returns the records of the query before offset and limit.
FindAll(skip, limit, where, order_by, found) ==
    LET keys == IF order_by # <<>> THEN BuildOrderQuery(order_by) ELSE OrdRes("list", <<>>)
    IN  /\ f_op = "none"
        /\ f_op' = "find_all"
        /\ f_args' = [skip |-> skip, limit |-> limit, where |-> where, order_by |-> order_by]
        /\ IF keys.kind = "ValueError"
             THEN /\ found = <<>>
                  /\ f_out' = FindRes("ValueError", <<>>, 0)
             ELSE /\ found \in Orderings(Matching(f_store, where, f_fields), keys.clauses)
                  /\ f_out' = FindRes("list", Paginate(found, skip, limit), 0)
        /\ UNCHANGED <<f_store, f_fields>>

\* count(where)
Count(where) ==
    /\ f_op = "none"
    /\ f_op' = "count"
    /\ f_args' = [NoArgs EXCEPT !.where = where]
    /\ f_out' = FindRes("count", <<>>, Cardinality(Matching(f_store, where, f_fields)))
    /\ UNCHANGED <<f_store, f_fields>>

(***************************************************************************)
(* ModelView._populate_obj (tortoise_admin/view.py)                        *)
(***************************************************************************)
\* A field of the view: its name, whether it is a FileField, its `multiple`.
PopField(name, file, multiple) == [name |-> name, file |-> file, multiple |-> multiple]
TitleField == PopField("title", FALSE, FALSE)
DocField == PopField("doc", TRUE, FALSE)
PicsField == PopField("pics", TRUE, TRUE)
PopFields == {TitleField, DocField, PicsField}
PopNames == {f.name : f \in PopFields}

OldFile == StrV(<<"a">>)
NewFile == StrV(<<"b">>)

\* The test of lines 293-295: a single file that is not None, or a list with
\* at least one file for a multiple field.
Supplied_NotNone(field, value) == value # NoneV

Supplied(field, value) ==
    \/ ~field.multiple /\ value # NoneV
    \/ field.multiple /\ value.t = "list" /\ Len(value.items) > 0

\* `value, should_be_deleted = value` unpacks a sequence of two items only.
UnpacksPair(v) == IsSeq(v) /\ Len(v.items) = 2

PopRes(kind, obj) == [kind |-> kind, obj |-> obj]
PopUnset == PopRes("unset", [n \in PopNames |-> NoneV])

\* One turn of the loop of _populate_obj on the attributes obj.
PopulateField(obj, field, value) ==
    IF field.file
      THEN IF ~UnpacksPair(value) THEN PopRes("TypeError", obj)
           ELSE IF Truthy(value.items[2])
             THEN PopRes("obj", [obj EXCEPT ![field.name] = NoneV])
           ELSE IF Supplied(field, value.items[1])
             THEN PopRes("obj", [obj EXCEPT ![field.name] = value.items[1]])
           ELSE PopRes("obj", obj)
      ELSE PopRes("obj", [obj EXCEPT ![field.name] = value])

\* The loop from field number i on; an exception leaves the attributes
\* assigned so far in place.
RECURSIVE PopulateFrom(_, _, _, _)
PopulateFrom(obj, fields, data, i) ==
    IF i > Len(fields) THEN PopRes("obj", obj)
    ELSE LET r == PopulateField(obj, fields[i], data[fields[i].name])
         IN  IF r.kind # "obj" THEN r
             ELSE PopulateFrom(r.obj, fields, data, i + 1)

PopulateObj(obj, fields, data) == PopulateFrom(obj, fields, data, 1)

\* What the instance may hold in a field, and what the form may submit for it.
OldValues(field) ==
    IF ~field.file THEN {NoneV, StrV(<<"t">>)}
    ELSE IF field.multiple THEN {NoneV, ListV(<<OldFile>>), ListV(<<OldFile, OldFile>>)}
    ELSE {NoneV, OldFile}
NewValues ==
    {NoneV, NewFile} \cup {ListV(l) : l \in SeqsUpTo({NewFile}, MaxFiles)}
Submitted(field) ==
    IF ~field.file THEN {NoneV, StrV(<<"u">>)}
    ELSE {NoneV} \cup {TupleV(<<v, BoolV(b)>>) : v \in NewValues, b \in BOOLEAN}

PopFieldLists ==
    {fs \in SeqsUpTo(PopFields, MaxPopFields) :
        /\ Len(fs) >= 1
        /\ \A i, j \in 1..Len(fs) : i # j => fs[i] # fs[j]}
InList(fs, n) == \E i \in 1..Len(fs) : fs[i].name = n

PopIdle ==
    /\ po_fields = <<>>
    /\ po_obj = [n \in PopNames |-> NoneV]
    /\ po_data = [n \in PopNames |-> NoneV]
    /\ po_out = PopUnset

PopInit ==
    /\ po_fields \in PopFieldLists
    /\ po_obj \in [PopNames -> UNION {OldValues(f) : f \in PopFields}]
    /\ po_data \in [PopNames -> UNION {Submitted(f) : f \in PopFields}]
    /\ \A f \in PopFields :
          IF InList(po_fields, f.name)
            THEN po_obj[f.name] \in OldValues(f) /\ po_data[f.name] \in Submitted(f)
            ELSE po_obj[f.name] = NoneV /\ po_data[f.name] = NoneV
    /\ po_out = PopUnset

\* edit (line 223) calls _populate_obj on the located instance.
EditPopulateObj ==
    /\ po_out = PopUnset
    /\ po_out' = PopulateObj(po_obj, po_fields, po_data)
    /\ UNCHANGED <<po_fields, po_obj, po_data>>

(***************************************************************************)
(* Specifications                                                          *)
(***************************************************************************)
SpecMwInit == MwInit /\ AdminIdle /\ ViewIdle /\ NormIdle /\ PKIdle /\ OrdIdle /\ PredIdle /\ ConvIdle /\ FindIdle /\ PopIdle
MwFrame == UNCHANGED <<adminVars, viewVars, normVars, pkVars, ordVars, predVars, convVars, findVars, popVars>>
SpecMwNext ==
    \/ \E r \in Reqs : DispatchEnter(r) /\ MwFrame
    \/ \E r \in Reqs : InitReturn(r) /\ MwFrame
    \/ \E r \in Reqs : SchemasReturn(r) /\ MwFrame
    \/ \E r \in Reqs : CallNextReturn(r) /\ MwFrame
    \/ \E r \in Reqs : RollbackReturn(r) /\ MwFrame
    \/ ShutdownEnter /\ MwFrame
    \/ ShutdownReturn /\ MwFrame
SpecMw == SpecMwInit /\ [][SpecMwNext]_vars

SpecAdminInit == AdminInit /\ MwIdle /\ ViewIdle /\ NormIdle /\ PKIdle /\ OrdIdle /\ PredIdle /\ ConvIdle /\ FindIdle /\ PopIdle
AdminFrame == UNCHANGED <<mwVars, viewVars, normVars, pkVars, ordVars, predVars, convVars, findVars, popVars>>
SpecAdminNext ==
    \/ AdminConstruct /\ AdminFrame
    \/ AdminMountTo /\ AdminFrame
SpecAdmin == SpecAdminInit /\ [][SpecAdminNext]_vars

SpecViewInit == ViewInit /\ MwIdle /\ AdminIdle /\ NormIdle /\ PKIdle /\ OrdIdle /\ PredIdle /\ ConvIdle /\ FindIdle /\ PopIdle
ViewFrame == UNCHANGED <<mwVars, adminVars, normVars, pkVars, ordVars, predVars, convVars, findVars, popVars>>
SpecViewNext ==
    \/ /\ last = NoOp
       /\ \E p \in Pks \ rows, rel \in RelInputs, inj \in Injections(6) :
             Create(p, rel, inj) /\ ViewFrame
    \/ /\ last = NoOp
       /\ \E p \in Pks, rel \in RelInputs, inj \in Injections(8) :
             Edit(p, rel, inj) /\ ViewFrame
    \/ /\ last = NoOp
       /\ \E keys \in SUBSET Pks, inj \in Injections(1 + 3 * MaxPk) :
             \E objs \in Perms(FindByPks(rows, keys)) :
                Delete(keys, objs, inj) /\ ViewFrame
    \/ /\ last = NoOp
       /\ \E keys \in SUBSET Pks, inj \in Injections(1) :
             DeleteLegacy(keys, inj) /\ ViewFrame
    \/ Respond /\ ViewFrame
SpecView == SpecViewInit /\ [][SpecViewNext]_vars

SpecNormInit == NormInit /\ MwIdle /\ AdminIdle /\ ViewIdle /\ PKIdle /\ OrdIdle /\ PredIdle /\ ConvIdle /\ FindIdle /\ PopIdle
NormFrame == UNCHANGED <<mwVars, adminVars, viewVars, pkVars, ordVars, predVars, convVars, findVars, popVars>>
SpecNormNext ==
    \/ ViewNormalize /\ NormFrame
    \/ LegacyViewNormalize /\ NormFrame
SpecNorm == SpecNormInit /\ [][SpecNormNext]_vars

SpecPKInit == PKInit /\ MwIdle /\ AdminIdle /\ ViewIdle /\ NormIdle /\ OrdIdle /\ PredIdle /\ ConvIdle /\ FindIdle /\ PopIdle
PKFrame == UNCHANGED <<mwVars, adminVars, viewVars, normVars, ordVars, predVars, convVars, findVars, popVars>>
SpecPKNext ==
    \/ PKSerialize /\ PKFrame
    \/ PKParseSerialized /\ PKFrame
    \/ PKParseInput /\ PKFrame
    \/ LegacyPKSerialize /\ PKFrame
    \/ LegacyPKParseSerialized /\ PKFrame
    \/ LegacyPKParseInput /\ PKFrame
SpecPK == SpecPKInit /\ [][SpecPKNext]_vars

SpecOrdInit == OrdInit /\ MwIdle /\ AdminIdle /\ ViewIdle /\ NormIdle /\ PKIdle /\ PredIdle /\ ConvIdle /\ FindIdle /\ PopIdle
OrdFrame == UNCHANGED <<mwVars, adminVars, viewVars, normVars, pkVars, predVars, convVars, findVars, popVars>>
SpecOrdNext ==
    \/ FindAllOrder /\ OrdFrame
SpecOrd == SpecOrdInit /\ [][SpecOrdNext]_vars

SpecPredInit == PredInit /\ MwIdle /\ AdminIdle /\ ViewIdle /\ NormIdle /\ PKIdle /\ OrdIdle /\ ConvIdle /\ FindIdle /\ PopIdle
PredFrame == UNCHANGED <<mwVars, adminVars, viewVars, normVars, pkVars, ordVars, convVars, findVars, popVars>>
SpecPredNext ==
    \/ GetSearchQuery /\ PredFrame
    \/ LegacyGetSearch /\ PredFrame
    \/ GetFilterQuery /\ PredFrame
SpecPred == SpecPredInit /\ [][SpecPredNext]_vars

SpecConvInit == ConvInit /\ MwIdle /\ AdminIdle /\ ViewIdle /\ NormIdle /\ PKIdle /\ OrdIdle /\ PredIdle /\ FindIdle /\ PopIdle
ConvFrame == UNCHANGED <<mwVars, adminVars, viewVars, normVars, pkVars, ordVars, predVars, findVars, popVars>>
SpecConvNext ==
    \/ GetConverter /\ ConvFrame
SpecConv == SpecConvInit /\ [][SpecConvNext]_vars

SpecFindInit == FindInit /\ MwIdle /\ AdminIdle /\ ViewIdle /\ NormIdle /\ PKIdle /\ OrdIdle /\ PredIdle /\ ConvIdle /\ PopIdle
FindFrame == UNCHANGED <<mwVars, adminVars, viewVars, normVars, pkVars, ordVars, predVars, convVars, popVars>>
SpecFindNext ==
    \/ /\ f_op = "none"
       /\ \E skip \in 0..MaxSkip, limit \in -1..MaxLimit, where \in FindWheres,
             order_by \in FindOrders :
             \E found \in {<<>>} \cup Perms(Matching(f_store, where, f_fields)) :
                FindAll(skip, limit, where, order_by, found) /\ FindFrame
    \/ /\ f_op = "none"
       /\ \E where \in FindWheres : Count(where) /\ FindFrame
SpecFind == SpecFindInit /\ [][SpecFindNext]_vars

SpecPopInit == PopInit /\ MwIdle /\ AdminIdle /\ ViewIdle /\ NormIdle /\ PKIdle /\ OrdIdle /\ PredIdle /\ ConvIdle /\ FindIdle
PopFrame == UNCHANGED <<mwVars, adminVars, viewVars, normVars, pkVars, ordVars, predVars, convVars, findVars>>
SpecPopNext ==
    \/ EditPopulateObj /\ PopFrame
SpecPop == SpecPopInit /\ [][SpecPopNext]_vars

(***************************************************************************)
(* Claims about TortoiseMiddleware                                         *)
(***************************************************************************)
\* C1: requests that overlap on an uninitialized pool cause exactly one call
\* of Tortoise.init: every call of Tortoise.init beyond the first follows a
\* completed shutdown or a failed initialization; a request never calls it
\* merely because another request's initialization is still in progress.
C1_InitOnce ==
    calls.init <= 1 + calls.closeDone + calls.initFail

\* C2: a dispatch that ended after call_next failed has made one rollback
\* attempt on every known connection, in order, and has raised the failure
\* call_next raised, whatever the failure and whatever the rollbacks did.
C2_RollbackAllThenReraise ==
    \A r \in Reqs :
        (pc[r] = "done" /\ orig[r] # NoExc) =>
            /\ attempts[r] = db_config
            /\ result[r] = Raised(orig[r])

\* C3: a shutdown call on an initialized middleware calls close_connections
\* once, and when that returns the middleware is uninitialized; a shutdown call
\* on an uninitialized middleware closes nothing; a request dispatched on an
\* uninitialized middleware calls Tortoise.init; and connections have been
\* closed at most once per completed initialization.
C3_Lifecycle ==
    [][ /\ (shutdowns' = shutdowns + 1 /\ initialized) =>
               (calls'.close = calls.close + 1 /\ sdpc' = "closing")
        /\ (shutdowns' = shutdowns + 1 /\ ~initialized) =>
               (calls' = calls /\ sdpc' = "idle" /\ ~initialized')
        /\ (calls'.closeDone = calls.closeDone + 1) =>
               (initialized /\ ~initialized' /\ sdpc' = "idle")
        /\ (dispatches' = dispatches + 1 /\ ~initialized) =>
               calls'.init = calls.init + 1
        /\ calls'.closeDone <= calls'.initDone ]_vars

\* C3's case: the middleware was initialized, shut down, and initialized again
\* by the request dispatched next; a further shutdown found it uninitialized.
C3_Witness ==
    /\ calls.closeDone = 1
    /\ calls.close = 1
    /\ calls.init = 2
    /\ calls.initDone = 2
    /\ calls.initFail = 0
    /\ shutdowns = 2
    /\ initialized

(***************************************************************************)
(* Claims about the Admin facade                                           *)
(***************************************************************************)
\* C4: once the Admin facade is constructed, the connection middleware is the
\* first element of its middleware chain and the user middlewares (none when
\* the argument was absent) follow it in their original order.
C4_ConnectionMiddlewareFirst ==
    admin_pc # "new" =>
        /\ Len(admin_middlewares) >= 1
        /\ Head(admin_middlewares) = TortoiseMiddleware
        /\ Tail(admin_middlewares) =
               (IF admin_arg.none THEN <<>> ELSE admin_arg.seq)

\* C4's case: a facade constructed with two different user middlewares.
C4_Witness ==
    /\ admin_pc = "built"
    /\ ~admin_arg.none
    /\ Len(admin_arg.seq) = 2
    /\ admin_arg.seq[1] # admin_arg.seq[2]
    /\ Len(admin_middlewares) = 3

(***************************************************************************)
(* Claims about ModelView                                                  *)
(***************************************************************************)
\* C5: with the many-valued relation field among the view's fields and no call
\* failing, create with the relation set to a collection returns an instance
\* whose relation holds exactly the related records of that collection, and an
\* edit of an existing record with the relation set to a collection returns an
\* instance whose relation holds exactly the related records of the new
\* collection.
C5_RelationSetThenReplaced ==
    (/\ last.op \in {"create", "edit"}
     /\ last.op = "edit" => last.found
     /\ view_cfg.rel_in_fields
     /\ view_cfg.rel_kind = "m2m"
     /\ ~last.rel.none
     /\ last.inj = NoFault)
    => /\ last.ret = "instance"
       /\ m2m[last.pk] = FindByPks(RelStore, last.rel.set)

\* C6: a delete that returns, returns the number of records that existed among
\* the keys; those records are gone from the store, the keys that matched no
\* record raised nothing, and the records not named keep their place and
\* their relations.
C6_DeleteCount ==
    [][ (last'.op \in {"delete", "delete_legacy"} /\ last'.ret = "count") =>
            /\ last'.count = Cardinality(last'.pks \cap rows)
            /\ rows' = rows \ last'.pks
            /\ \A p \in Pks \ last'.pks : m2m'[p] = m2m[p] ]_vars

\* C6's case: delete([pk1, pk2]) where only one of the two exists returned 1.
C6_Witness ==
    /\ last.op = "delete"
    /\ last.ret = "count"
    /\ last.count = 1
    /\ Cardinality(last.pks) = 2
    /\ rows \cap last.pks = {}

\* The records of the statements called `name`, in the order they ran.
Pick(log, name) ==
    LET sel == SelectSeq(log, LAMBDA st : st[1] = name)
    IN  [i \in 1..Len(sel) |-> sel[i][2]]
Places(log, name) == {i \in 1..Len(log) : log[i][1] = name}

\* C15: when a call made by create, edit or delete raises and the exception
\* reaches the handler, a validation failure of the model comes out as a
\* field-validation error and any other exception comes out as it is.
C15_OtherExceptionsUnchanged ==
    ( /\ last.op \in {"create", "edit", "delete", "delete_legacy"}
      /\ last.inj.at # 0
      /\ Len(last.log) = last.inj.at - 1 ) =>
        /\ last.ret = "raised"
        /\ last.exc = IF last.inj.kind = "ValidationError" THEN "FormValidationError"
                      ELSE last.inj.kind

\* C17: in delete, an instance is deleted only after its pre-delete hook has
\* run; no post-delete hook runs before every located instance is deleted; a
\* delete that returns has run one pre-delete hook, one deletion and one
\* post-delete hook for each located instance, each of the three in the same
\* order of instances.
C17_DeleteHookOrder ==
    [][ last'.op = "delete" =>
          LET log == last'.log
              located == rows \cap last'.pks
              pre == Pick(log, "before_delete")
              del == Pick(log, "delete")
              post == Pick(log, "after_delete")
          IN  /\ \A d \in Places(log, "delete") :
                    \E b \in Places(log, "before_delete") :
                        b < d /\ log[b][2] = log[d][2]
              /\ \A a \in Places(log, "after_delete") :
                    \A p \in located :
                        \E d \in Places(log, "delete") : d < a /\ log[d][2] = p
              /\ last'.ret = "count" =>
                    /\ Len(pre) = Cardinality(located)
                    /\ {pre[i] : i \in 1..Len(pre)} = located
                    /\ del = pre
                    /\ post = pre ]_vars

C17_Witness ==
    /\ last.op = "delete"
    /\ last.ret = "count"
    /\ last.log = <<Step("find_by_pks", 0), Step("before_delete", 2), Step("delete", 2),
                    Step("before_delete", 1), Step("delete", 1),
                    Step("after_delete", 2), Step("after_delete", 1)>>

\* The statements of create in the order the claim gives them.
CreateOrder ==
    <<"validate", "before_create", "save">>
    \o (IF ~view_cfg.rel_in_fields THEN <<>>
        ELSE IF view_cfg.rel_kind = "m2m" THEN <<"add">>
        ELSE <<"setattr", "save_again">>)
    \o <<"after_create">>

\* C18: the statements of a create run in the order validation, pre-create
\* hook, first save, attachment of the relation (add for a many-valued one,
\* assignment and a further save for a single-valued one), post-create hook:
\* each runs once and only after all those before it, and a create that
\* returns the instance has run them all.
C18_CreateOrder ==
    last.op = "create" =>
        /\ Len(last.log) <= Len(CreateOrder)
        /\ \A i \in 1..Len(last.log) : last.log[i] = Step(CreateOrder[i], last.pk)
        /\ last.ret = "instance" => Len(last.log) = Len(CreateOrder)

C18_Witness ==
    /\ last.op = "create"
    /\ last.ret = "instance"
    /\ view_cfg.rel_kind = "fk"
    /\ last.log = <<Step("validate", 1), Step("before_create", 1), Step("save", 1),
                    Step("setattr", 1), Step("save_again", 1), Step("after_create", 1)>>
    /\ m2m[1] = {1}

\* C20: a create or an edit whose relation field is submitted as None runs
\* no add, no clear and no assignment for the relation, returns the
\* instance, and an edit leaves the relation of the record as it was.
C20_NoneRelationSkipped ==
    [][ ( /\ last'.op \in {"create", "edit"}
          /\ last'.op = "edit" => last'.found
          /\ view_cfg.rel_in_fields
          /\ last'.rel.none
          /\ last'.inj = NoFault ) =>
            /\ last'.ret = "instance"
            /\ \A i \in 1..Len(last'.log) :
                  last'.log[i][1] \notin {"add", "clear", "setattr", "save_again"}
            /\ last'.op = "edit" => m2m'[last'.pk] = m2m[last'.pk] ]_vars

(***************************************************************************)
(* Claims about normalize_list                                             *)
(***************************************************************************)
\* C7: in plain mode normalize_list returns a sequence of strings as it is,
\* same elements in the same order, and raises an error naming the type of
\* the first element that is not a string.
C7_PlainIdentityOrRaise ==
    (norm_fn # "none" /\ ~norm_mode /\ norm_in.kind \in {"list", "tuple"}) =>
        LET bad == FirstNot(norm_in.elems, IsStr)
        IN  IF bad = 0
              THEN norm_out = NormRes("list", "", norm_in.elems)
              ELSE /\ norm_out.kind = "ValueError"
                   /\ norm_out.msg = TypeName(norm_in.elems[bad])

\* C8: in default-sort mode normalize_list turns a bare name into
\* (name, False), keeps a (name, bool) pair, keeps the order, and raises for
\* an entry of any other shape.
C8_DefaultSortPairsOrRaise ==
    (norm_fn # "none" /\ norm_mode /\ norm_in.kind \in {"list", "tuple"}) =>
        LET WellFormed(v) == IsStr(v) \/ (v.t = "tuple" /\ IsSortPair(v))
            bad == FirstNot(norm_in.elems, WellFormed)
        IN  IF bad = 0
              THEN norm_out =
                     NormRes("list", "",
                             [i \in 1..Len(norm_in.elems) |->
                                 IF IsStr(norm_in.elems[i])
                                   THEN TupleV(<<norm_in.elems[i], BoolV(FALSE)>>)
                                   ELSE norm_in.elems[i]])
              ELSE norm_out.kind \in {"ValueError", "TypeError"}

(***************************************************************************)
(* Claims about MultiplePKField                                            *)
(***************************************************************************)
NoComma(chars) == \A i \in 1..Len(chars) : chars[i] # Comma

\* C9: for a composite key (two or more components) whose components' string
\* forms are non-empty and hold no comma, parse_value(serialize_value(key))
\* of tortoise_admin/fields.py is the tuple of the components' string forms,
\* as many of them and in the same order.
C9_RoundTrip ==
    ( /\ pk_impl = "tortoise_admin"
      /\ pk_phase = "roundtrip"
      /\ IsSeq(pk_in)
      /\ Len(pk_in.items) >= 2
      /\ \A i \in 1..Len(pk_in.items) :
            Str(pk_in.items[i]) # <<>> /\ NoComma(Str(pk_in.items[i])) ) =>
        /\ pk_par.t = "tuple"
        /\ Len(pk_par.items) = Len(pk_in.items)
        /\ \A i \in 1..Len(pk_in.items) : pk_par.items[i] = StrV(Str(pk_in.items[i]))

C9_Witness ==
    /\ pk_impl = "tortoise_admin"
    /\ pk_phase = "roundtrip"
    /\ pk_in = TupleV(<<IntV(12), StrV(<<"1">>)>>)
    /\ pk_ser = StrV(<<"1", "2", ",", "1">>)
    /\ pk_par = TupleV(<<StrV(<<"1", "2">>), StrV(<<"1">>)>>)

\* C10: the field serializes None to the empty string, a tuple or list to
\* its components' string forms joined by commas, a scalar to its string
\* form; it parses an empty or None input to None, a string with a comma and
\* no empty part to the tuple of its parts, a string with a comma and an
\* empty part to a validation error, a string without a comma to itself.
C10_SerializeParse ==
    /\ pk_phase \in {"serialized", "roundtrip"} =>
          pk_ser = IF pk_in = NoneV THEN StrV(<<>>)
                   ELSE IF IsSeq(pk_in)
                     THEN StrV(Join([i \in 1..Len(pk_in.items) |-> Str(pk_in.items[i])],
                                    <<",">>))
                   ELSE StrV(Str(pk_in))
    /\ (pk_phase = "parsed" /\ pk_in.t \in {"NoneType", "str"}) =>
          IF pk_in = NoneV \/ pk_in = StrV(<<>>) THEN pk_par = NoneV
          ELSE IF NoComma(pk_in.s) THEN pk_par = pk_in
          ELSE LET parts == Split(pk_in.s, ",")
               IN  IF \E i \in 1..Len(parts) : parts[i] = <<>>
                     THEN pk_par.t = "FormValidationError"
                     ELSE pk_par = TupleV([i \in 1..Len(parts) |-> StrV(parts[i])])

(***************************************************************************)
(* Claims about build_order_query                                          *)
(***************************************************************************)
\* C11: for a list whose entries all have exactly two words, a field and a
\* direction, build_order_query returns one key per entry in the order of the
\* entries: '-' before the field when the direction, letter case aside, is
\* "desc", the bare field for any other direction.
C11_OrderKeys ==
    ( /\ ord_out # OrdUnset
      /\ \A i \in 1..Len(ord_in) : Len(Words(ord_in[i])) = 2 ) =>
        /\ ord_out.kind = "list"
        /\ Len(ord_out.clauses) = Len(ord_in)
        /\ \A i \in 1..Len(ord_in) :
              LET w == Words(ord_in[i])
              IN  ord_out.clauses[i] =
                    IF w[2] \in {<<"d", "e", "s", "c">>, <<"D", "E", "S", "C">>,
                                 <<"D", "e", "s", "c">>}
                      THEN <<"-">> \o w[1] ELSE w[1]

C11_Witness ==
    /\ ord_in = << <<"p", " ", "D", "e", "s", "c">>, <<" ", "i", "d", " ", "\t", "a", "s", "c", " ">> >>
    /\ ord_out = OrdRes("list", << <<"-", "p">>, <<"i", "d">> >>)

\* C19: build_order_query raises for a list with an entry that is not
\* exactly two words separated by whitespace: one word, an empty or blank
\* string, three words or more.
C19_MalformedOrderRaises ==
    ( /\ ord_out # OrdUnset
      /\ \E i \in 1..Len(ord_in) : Len(Words(ord_in[i])) # 2 ) =>
        ord_out.kind = "ValueError"

(***************************************************************************)
(* Claims about the query builders                                         *)
(***************************************************************************)
\* C12: the search predicate holds for a record exactly when one of the
\* listed fields contains the term, letter case aside; with no field listed
\* or an empty term it holds for every record.
C12_SearchPredicate ==
    p_fn \in {"search", "legacy_search"} =>
        \A rec \in Records :
            Eval(p_pred, rec) <=>
                IF p_fields = <<>> \/ p_term = <<>> THEN TRUE
                ELSE \E i \in 1..Len(p_fields) :
                        /\ rec[p_fields[i]] # NoneV
                        /\ Contains(Lower(rec[p_fields[i]].s), Lower(p_term))

\* C13: the filter predicate holds for a record exactly when, for every key
\* of the mapping, the record's field equals the scalar value or is one of
\* the items of the list or tuple; with an empty mapping it holds for every
\* record.
C13_FilterPredicate ==
    p_fn = "filter" =>
        \A rec \in Records :
            Eval(p_pred, rec) <=>
                \A f \in FieldNames :
                    \/ p_where[f] = Absent
                    \/ p_where[f].t \in {"list", "tuple"}
                         /\ \E i \in 1..Len(p_where[f].items) :
                               p_where[f].items[i] = rec[f]
                    \/ p_where[f].t \notin {"list", "tuple"} /\ rec[f] = p_where[f]

C13_Witness ==
    /\ p_fn = "filter"
    /\ p_where = [f \in FieldNames |-> IF f = "name" THEN Al ELSE ListV(<<Al, Bal>>)]
    /\ p_pred = QNode("AND", {QLeaf("name", "eq", Al),
                              QLeaf("status", "in", ListV(<<Al, Bal>>))})

(***************************************************************************)
(* Claims about the field converter                                        *)
(***************************************************************************)
\* C16: the converter found for a field is the one registered for the
\* nearest class in the method-resolution order of the field's type that has
\* an entry, under its qualified name when there is one and under its bare
\* name otherwise; when no class of the order has an entry the conversion
\* fails with a not-supported error that names the field.
C16_NearestConverterWins ==
    cv_out # ConvUnset =>
        LET mro == Mro(cv_field.cls)
            Hit(i) == \/ cv_converters[QualKey(mro[i])] # "none"
                      \/ cv_converters[BareKey(mro[i])] # "none"
            hits == {i \in 1..Len(mro) :
                        /\ QualKey(mro[i]) \in ConverterKeys
                        /\ Hit(i)}
        IN  IF hits = {}
              THEN cv_out = ConvRes("NotSupportedColumn", "none", cv_field.name)
              ELSE LET first == CHOOSE i \in hits : \A j \in hits : i <= j
                   IN  /\ cv_out.kind = "converter"
                       /\ cv_out.conv =
                            IF cv_converters[QualKey(mro[first])] # "none"
                              THEN cv_converters[QualKey(mro[first])]
                              ELSE cv_converters[BareKey(mro[first])]

\* C16's case: the subclass has only a bare-name entry, its parent a
\* qualified one; the subclass's entry is the one returned.
C16_Witness ==
    /\ cv_field.cls = AppEmailFieldClass
    /\ cv_converters[QualKey(AppEmailFieldClass)] = "none"
    /\ cv_converters[BareKey(AppEmailFieldClass)] = "conv_email"
    /\ cv_converters[QualKey(CharFieldClass)] = "conv_string"
    /\ cv_out = ConvRes("converter", "conv_email", "")

(***************************************************************************)
(* Claims about find_all and count                                         *)
(***************************************************************************)
\* The records the claim selects for a where: those passing the filter
\* predicate of a mapping, those matching the search for the text of any
\* other value, all of them for None.
C14_Selected ==
    {k \in f_store :
        IF f_args.where.kind = "None" THEN TRUE
        ELSE IF f_args.where.kind = "dict"
          THEN Eval(BuildFilterQuery(f_args.where.dict), RowOf(k))
          ELSE Eval(BuildSearchQuery(Str(f_args.where.val), f_fields), RowOf(k))}

\* C14: a find_all that returns gives the selected records in an order
\* that agrees with order_by, without the first skip of them and cut to limit
\* records when limit is positive; count gives the number of selected
\* records, which is the number find_all gives with skip 0 and limit <= 0.
C14_FindAllAndCount ==
    /\ (f_op = "find_all" /\ f_out.kind = "list") =>
          \E q \in Orderings(C14_Selected,
                             IF f_args.order_by = <<>> THEN <<>>
                             ELSE BuildOrderQuery(f_args.order_by).clauses) :
              LET left == Max(0, Len(q) - f_args.skip)
                  n == IF f_args.limit <= 0 THEN left ELSE Min(left, f_args.limit)
              IN  /\ Len(f_out.rows) = n
                  /\ \A i \in 1..n : f_out.rows[i] = q[f_args.skip + i]
    /\ f_op = "count" => f_out.n = Cardinality(C14_Selected)

\* C14's case: three records, two selected by the search, ordered by status
\* descending, the first skipped.
C14_Witness ==
    /\ f_op = "find_all"
    /\ f_store = {1, 2, 3}
    /\ f_args = [skip |-> 1, limit |-> -1, where |-> WhereOther(StrV(<<"a", "L">>)),
                 order_by |-> <<StatusAsc, PkDesc>>]
    /\ f_fields = <<"name">>
    /\ f_out = FindRes("list", <<1>>, 0)

\* C21: an edit whose lookup ran and located no record (the key is absent,
\* or the lookup failed and find_by_pk reported None) raises a
\* field-validation error after validation and lookup only: no pre-edit or
\* post-edit hook, no assignment, no save, no change of a relation, and the
\* store is as it was.
C21_EditNotFound ==
    [][ ( /\ last'.op = "edit"
          /\ ~last'.found
          /\ Has(last'.log, "find_by_pk") ) =>
            /\ last'.ret = "raised"
            /\ last'.exc = "FormValidationError"
            /\ last'.log = <<Step("validate", last'.pk), Step("find_by_pk", last'.pk)>>
            /\ \A name \in {"before_edit", "after_edit", "populate", "save", "clear",
                            "add", "setattr", "save_again"} : ~Has(last'.log, name)
            /\ rows' = rows
            /\ m2m' = m2m ]_vars

C21_Witness ==
    /\ last.op = "edit"
    /\ last.pk \notin rows
    /\ ~last.found
    /\ last.exc = "FormValidationError"
    /\ last.log = <<Step("validate", last.pk), Step("find_by_pk", last.pk)>>

\* C24: when the pre-delete hook or the deletion of the k-th located
\* instance raises, the k-1 instances before it are gone from the store, the
\* k-th and those after it are still there, no post-delete hook has run, and
\* delete raises (a validation failure as a field-validation error, anything
\* else as it is) instead of returning a count.
C24_DeleteNotAtomic ==
    [][ ( /\ last'.op = "delete"
          /\ last'.inj.at >= 2
          /\ last'.inj.at <= 1 + 2 * Cardinality(rows \cap last'.pks) ) =>
            LET located == rows \cap last'.pks
                k == ((last'.inj.at - 2) \div 2) + 1
                log == last'.log
                del == Pick(log, "delete")
                gone == {del[i] : i \in 1..Len(del)}
            IN  /\ Len(del) = k - 1
                /\ Cardinality(gone) = k - 1
                /\ gone \subseteq located
                /\ rows' = rows \ gone
                /\ Cardinality(located \cap rows') = Cardinality(located) - (k - 1)
                /\ Places(log, "after_delete") = {}
                /\ last'.ret = "raised"
                /\ last'.count = 0
                /\ last'.exc = HandleException(last'.inj.kind) ]_vars

C24_Witness ==
    /\ last.op = "delete"
    /\ last.ret = "raised"
    /\ Len(Pick(last.log, "delete")) = 1
    /\ Len(Pick(last.log, "before_delete")) = 2
    /\ Places(last.log, "after_delete") = {}
    /\ Cardinality(last.pks \cap rows) = 1
    /\ Cardinality(last.pks) = 2

C22_FileFieldPopulate ==
    ( /\ po_out # PopUnset
      /\ \A i \in 1..Len(po_fields) :
            po_fields[i].file => UnpacksPair(po_data[po_fields[i].name]) ) =>
        /\ po_out.kind = "obj"
        /\ \A i \in 1..Len(po_fields) :
              LET field == po_fields[i]
                  value == po_data[field.name].items[1]
                  should_delete == po_data[field.name].items[2] = BoolV(TRUE)
                  before == po_obj[field.name]
                  after == po_out.obj[field.name]
              IN  field.file =>
                    /\ should_delete => after = NoneV
                    /\ (~should_delete /\ ~field.multiple /\ value # NoneV)
                          => after = value
                    /\ (~should_delete /\ ~field.multiple /\ value = NoneV)
                          => after = before
                    /\ (~should_delete /\ field.multiple /\ value.t = "list"
                          /\ value.items # <<>>) => after = value
                    /\ (~should_delete /\ field.multiple
                          /\ ~(value.t = "list" /\ value.items # <<>>))
                          => after = before

C22_Witness ==
    /\ po_fields = <<DocField, PicsField>>
    /\ po_obj["doc"] = OldFile
    /\ po_data["doc"] = TupleV(<<NewFile, BoolV(TRUE)>>)
    /\ po_obj["pics"] = ListV(<<OldFile>>)
    /\ po_data["pics"] = TupleV(<<ListV(<<>>), BoolV(FALSE)>>)
    /\ po_out = PopRes("obj", [title |-> NoneV, doc |-> NoneV,
                               pics |-> ListV(<<OldFile>>)])

====
